---- MODULE Spec2Model ----
(***************************************************************************)
(* Wallet / settlement backend (Cloud Functions section of                 *)
(* src/Screens/Community/CommunityScreen.tsx, lines 301-1051).             *)
(*                                                                         *)
(* Money amounts are JavaScript Numbers in the source.  They are modelled  *)
(* as integers counting 1/Scale of a currency unit, so that Math.round     *)
(* (whole units) and toFixed(2) (hundredths) are real roundings.           *)
(*                                                                         *)
(* Every request is a process: a slot of `req`.  A store transaction       *)
(* (db.runTransaction) is modelled with optimistic concurrency: each       *)
(* t.get records the version of the document it read, the commit applies   *)
(* the buffered writes atomically if every version read is still current,  *)
(* and otherwise the attempt is aborted and the body is run again.         *)
(***************************************************************************)
EXTENDS Integers, Sequences, FiniteSets, TLC

Scale == 1000

\* ----------------------------------------------------------------- universe
Users == {"u1", "u2", "u3"}
NoVal == ""
Callers == Users \cup {NoVal}
Slots == {1, 2}
MaxAttempts == 2

APP_DEFAULT_CCY == "ZAR"
PAYPAL_FALLBACK_CCY == "USD"
getBaseCurrency == APP_DEFAULT_CCY

\* A raw request field: absent, a non-numeric string, or a number.
Raw(k, v) == [k |-> k, v |-> v]
Num(v) == Raw("num", v)
TransferAmounts == {Raw("none", 0), Raw("nan", 0), Num(0), Num(0 - 5 * Scale),
                    Num(40 * Scale), Num(70 * Scale)}

\* JavaScript `!x` and `isNaN(Number(x))` on a raw field.
Falsy(a) == a.k = "none" \/ (a.k = "num" /\ a.v = 0)
IsNaNNumber(a) == a.k # "num"
NumberOf(a) == a.v

\* req holds the requests; fx is a currency conversion followed call by call (FxSpec);
\* pg is a client reading a ledger page by page (PageSpec).
VARIABLES wallets, wver, ledger, rides, rver, driversLive, orders, opening, req, fx, pg

vars == <<wallets, wver, ledger, rides, rver, driversLive, orders, opening, req, fx, pg>>
data == <<wallets, wver, ledger, rides, rver, driversLive, orders>>

\* ------------------------------------------------------------------ helpers
\* No conversion is being followed.
NoFx == [pc |-> "none", amount |-> 0, from |-> NoVal, to |-> NoVal, hasKey |-> FALSE,
         calls |-> <<>>, seen |-> <<>>, thrown |-> FALSE, result |-> 0]

\* No client is paging.
NoPg == [pc |-> "none", owner |-> NoVal, limit |-> [k |-> "none", v |-> 0], cursor |-> 0,
         got |-> <<>>, sizes |-> <<>>, cursors |-> <<>>]

\* No order has been prepared for the gateway.
NoOrder == [currency |-> NoVal, amount |-> 0, customId |-> NoVal]

\* The body of an answer that carries no amount
NoRet == [status |-> NoVal, credited |-> 0, currency |-> NoVal]

Idle == [pc |-> "idle", op |-> "none", caller |-> NoVal, target |-> NoVal,
         payee |-> NoVal, amt |-> 0, fee |-> 0, attempts |-> 0, result |-> "",
         pbal |-> 0, cbal |-> 0, rv |-> <<0, 0, 0>>, ret |-> NoRet, gw |-> NoVal,
         claimed |-> NoVal, order |-> NoOrder]

\* A request rejected before it touches anything keeps only its operation and error.
Rejected(op, err) == [Idle EXCEPT !.pc = "done", !.op = op, !.result = err]

\* A finished request keeps its parameters and result; its snapshot is out of scope.
Finish(r, result) == [r EXCEPT !.pc = "done", !.result = result, !.pbal = 0, !.cbal = 0,
                               !.rv = <<0, 0, 0>>]

\* Requests are issued in slot order.
CanStart(s) == req[s].pc = "idle" /\ \A q \in Slots : q < s => req[q].pc # "idle"

\* Mutant: a call without an identity is let through.
uidOrThrowNever(caller) == TRUE

\* if (!req.auth?.uid) throw new HttpsError("unauthenticated", ...)
uidOrThrow(caller) == caller # NoVal

\* wSnap.exists ? Number(wSnap.get("balance") || 0) : 0
ReadBalance(w, u) == IF w[u].exists THEN w[u].balance ELSE 0

\* t.set(walletDoc(u), {balance: b, ...}, {merge: true})
SetBalance(w, u, b) == [w EXCEPT ![u] = [exists |-> TRUE, balance |-> b]]

\* Mutant: the increment is written as a plain value.
IncrementAsSet(w, u, n) == [w EXCEPT ![u] = [exists |-> TRUE, balance |-> n]]

\* t.set(walletDoc(u), {balance: FieldValue.increment(n), ...}, {merge: true})
IncrementBalance(w, u, n) == [w EXCEPT ![u] = [exists |-> TRUE, balance |-> ReadBalance(w, u) + n]]

Entry(type, amount, ref) ==
    [type |-> type, amount |-> amount, ref |-> ref, status |-> "SUCCESS"]
\* The TOP_UP entry of a capture: ref is the orderId
TopUpEntry(amount, orderId, captureId) ==
    [type |-> "TOP_UP", amount |-> amount, ref |-> orderId, captureId |-> captureId,
     status |-> "SUCCESS"]
\* Mutant: the entry is written to a fixed document id and replaces the ledger.
OverwriteEntry(l, u, e) == [l EXCEPT ![u] = <<e>>]

\* t.set(txCollection(u).doc(), e): a fresh document in u's transactions collection
AppendEntry(l, u, e) == [l EXCEPT ![u] = Append(@, e)]

Bump(v, docs) == [d \in DOMAIN v |-> IF d \in docs THEN v[d] + 1 ELSE v[d]]

\* Mutant: the commit does not check the read set.
ReadSetUnchecked(r) == TRUE

\* The store's commit-time check: every document the attempt read is unchanged.
ReadSetUnchanged(r) ==
    CASE r.op = "transfer" -> r.rv[1] = wver[r.caller] /\ r.rv[2] = wver[r.payee]
      [] r.op = "payDriver" -> /\ r.rv[1] = wver[r.caller] /\ r.rv[2] = wver[r.payee]
                               /\ r.rv[3] = rver[r.target]
      [] r.op = "payOrder" -> r.rv[1] = wver[r.caller]
      [] OTHER -> r.rv[1] = wver[r.payee]

\* Mutant: the balance is not compared with the amount.
InsufficientNever(bal, amount) == FALSE

\* if (fromBal < amt) throw new HttpsError("failed-precondition", ...)
Insufficient(bal, amount) == bal < amount

\* An aborted attempt is run again, up to the store's retry policy.
Retried(r, firstPc, err) ==
    IF r.attempts >= MaxAttempts
    THEN Finish(r, err)
    ELSE IF r.op = "payDriver"
         \* driverId, amount and the fee are locals of the transaction body
         THEN [r EXCEPT !.pc = firstPc, !.pbal = 0, !.cbal = 0, !.rv = <<0, 0, 0>>,
                        !.payee = NoVal, !.amt = 0, !.fee = 0]
         ELSE [r EXCEPT !.pc = firstPc, !.pbal = 0, !.cbal = 0, !.rv = <<0, 0, 0>>]

\* ----------------------------------------------------------------- fixtures
\* Ride documents are owned by the ride subsystem; these exist before any settlement.
Rides == {"r1", "r2", "r3", "r4", "r5", "r6", "r7", "r8", "r9"}
Ride(userId, status, driverId, fare) ==
    [exists |-> TRUE, userId |-> userId, status |-> status, payStatus |-> NoVal,
     driverId |-> driverId, fare |-> fare]
NoRide == [exists |-> FALSE, userId |-> NoVal, status |-> NoVal, payStatus |-> NoVal,
           driverId |-> NoVal, fare |-> 0]
RideDocs ==
    [r \in Rides |->
       CASE r = "r1" -> Ride("u1", "on_trip", "u2", 100 * Scale)
         [] r = "r2" -> NoRide
         [] r = "r3" -> Ride("u1", "on_trip", NoVal, 100 * Scale)
         [] r = "r4" -> Ride("u1", "accepted", "u2", 100 * Scale)
         [] r = "r5" -> Ride("u1", "on_trip", "u2", 0)
         [] r = "r6" -> Ride("u1", "completed", "u2", 100 * Scale)
         [] r = "r7" -> Ride("u1", "on_trip", "u1", 50 * Scale)
         \* a fare that is not a whole number of units: 1.60
         [] r = "r9" -> Ride("u1", "on_trip", "u3", 1600)
         [] OTHER -> Ride("u1", "on_trip", "u3", 5 * Scale)]

\* process.env.APP_PLATFORM_FEE_RATE, in percent
FeeRates == {0 - 10, 20, 50, 120}

\* Business documents are owned by the marketplace subsystem.
Businesses == {"b1", "b2", "b3"}
BusinessDocs ==
    [b \in Businesses |->
       CASE b = "b1" -> [exists |-> TRUE, ownerId |-> "u2"]
         [] b = "b2" -> [exists |-> FALSE, ownerId |-> NoVal]
         [] OTHER -> [exists |-> TRUE, ownerId |-> NoVal]]
OrderTotals == {Raw("none", 0), Num(0), Num(30 * Scale)}

\* Orders the payment gateway holds, approved by the payer and ready for capture:
\* custom_id, and the id and amount of the capture the gateway reports (o3: no capture
\* reported, capture?.id || null).
OrderIds == {"o1", "o2", "o3"}
GwOrders ==
    [o \in OrderIds |->
       CASE o = "o1" -> [customId |-> "u1", captureId |-> "cap1", hasAmount |-> TRUE,
                         value |-> 100 * Scale, currency |-> "ZAR"]
         [] o = "o2" -> [customId |-> "u2", captureId |-> "cap2", hasAmount |-> TRUE,
                         value |-> 5 * Scale, currency |-> "USD"]
         [] OTHER -> [customId |-> "u3", captureId |-> NoVal, hasAmount |-> FALSE,
                      value |-> 0, currency |-> NoVal]]

\* The state after u1's first top-up (capture of o1) has been credited.
Funded == [w |-> [u \in Users |-> IF u = "u1" THEN [exists |-> TRUE, balance |-> 100 * Scale]
                                   ELSE [exists |-> FALSE, balance |-> 0]],
           l |-> [u \in Users |-> IF u = "u1" THEN <<TopUpEntry(100 * Scale, "o1", "cap1")>>
                                   ELSE <<>>],
           v |-> [u \in Users |-> IF u = "u1" THEN 1 ELSE 0]]
Empty == [w |-> [u \in Users |-> [exists |-> FALSE, balance |-> 0]],
          l |-> [u \in Users |-> <<>>],
          v |-> [u \in Users |-> 0]]

Init ==
    /\ \E seed \in {Empty, Funded} :
          /\ wallets = seed.w
          /\ ledger = seed.l
          /\ wver = seed.v
          /\ opening = [u \in Users |-> ReadBalance(seed.w, u)]
    /\ rides = RideDocs
    /\ rver = [r \in Rides |-> 0]
    /\ driversLive = [u \in Users |-> IF u = "u1" THEN "absent" ELSE "occupied"]
    /\ orders = <<>>
    /\ req = [s \in Slots |-> Idle]
    /\ fx = NoFx
    /\ pg = NoPg

\* -------------------------------------------------------------- transferFunds
\* Mutant: a transfer to oneself is not rejected.
TransferInvalidSelfAllowed(caller, toUid, amount) ==
    \/ toUid = NoVal
    \/ Falsy(amount) \/ IsNaNNumber(amount) \/ NumberOf(amount) <= 0

TransferInvalid(caller, toUid, amount) ==
    \/ toUid = NoVal \/ toUid = caller
    \/ Falsy(amount) \/ IsNaNNumber(amount) \/ NumberOf(amount) <= 0

CallTransfer(s, caller, toUid, amount) ==
    /\ CanStart(s)
    /\ req' = [req EXCEPT ![s] =
          IF ~uidOrThrow(caller) THEN Rejected("transfer", "unauthenticated")
          ELSE IF TransferInvalid(caller, toUid, amount)
               THEN Rejected("transfer", "invalid-argument")
               ELSE [Idle EXCEPT !.pc = "tx_wallets", !.op = "transfer",
                                 !.caller = caller, !.target = toUid,
                                 !.payee = toUid, !.amt = NumberOf(amount)]]
    /\ UNCHANGED <<data, opening, fx, pg>>

TransferRead(s) ==
    /\ req[s].pc = "tx_wallets" /\ req[s].op = "transfer"
    /\ LET r == req[s]
           fromBal == ReadBalance(wallets, r.caller)
       IN req' = [req EXCEPT ![s] =
             IF Insufficient(fromBal, r.amt)
             THEN Finish([r EXCEPT !.attempts = @ + 1], "failed-precondition")
             ELSE [r EXCEPT !.pc = "tx_commit", !.attempts = @ + 1,
                            !.pbal = fromBal,
                            !.cbal = ReadBalance(wallets, r.payee),
                            !.rv = <<wver[r.caller], wver[r.payee], 0>>]]
    /\ UNCHANGED <<data, opening, fx, pg>>

\* Mutant: the commit waits for the wallets it read to be as it read them.
TransferCommitWaits(s) ==
    /\ req[s].pc = "tx_commit" /\ req[s].op = "transfer"
    /\ ReadSetUnchanged(req[s])
    /\ LET r == req[s] IN
       /\ wallets' = SetBalance(SetBalance(wallets, r.caller, r.pbal - r.amt),
                                r.payee, r.cbal + r.amt)
       /\ ledger' = AppendEntry(
                      AppendEntry(ledger, r.caller, Entry("TRANSFER_OUT", r.amt, r.payee)),
                      r.payee, Entry("TRANSFER_IN", r.amt, r.caller))
       /\ wver' = Bump(wver, {r.caller, r.payee})
       /\ req' = [req EXCEPT ![s] = Finish(r, "ok")]
       /\ UNCHANGED <<rides, rver, driversLive, orders, opening, fx, pg>>

TransferCommit(s) ==
    /\ req[s].pc = "tx_commit" /\ req[s].op = "transfer"
    /\ LET r == req[s] IN
       IF ReadSetUnchanged(r)
       THEN /\ wallets' = SetBalance(SetBalance(wallets, r.caller, r.pbal - r.amt),
                                     r.payee, r.cbal + r.amt)
            /\ ledger' = AppendEntry(
                           AppendEntry(ledger, r.caller,
                                       Entry("TRANSFER_OUT", r.amt, r.payee)),
                           r.payee, Entry("TRANSFER_IN", r.amt, r.caller))
            /\ wver' = Bump(wver, {r.caller, r.payee})
            /\ req' = [req EXCEPT ![s] = Finish(r, "ok")]
            /\ UNCHANGED <<rides, rver, driversLive, orders, opening, fx, pg>>
       ELSE /\ req' = [req EXCEPT ![s] = Retried(r, "tx_wallets", "internal")]
            /\ UNCHANGED <<data, opening, fx, pg>>

\* -------------------------------------------------------- payDriverOnComplete
\* Mutant: the marker is compared with a status the settlement never writes.
SettledWrongMarker(ride) == ride.payStatus = "paid"

\* ride?.payment?.status === "authorized" || ride?.status === "completed"
Settled(ride) == ride.payStatus = "authorized" \/ ride.status = "completed"

Max(a, b) == IF a >= b THEN a ELSE b
Min(a, b) == IF a <= b THEN a ELSE b
\* Math.max(0, Math.min(0.95, feeRate)), in percent
ClampRate(pct) == Max(0, Min(95, pct))
\* Math.round(x) for x = n / d currency units (d > 0): the nearest whole unit, halves up
MathRound(n, d) == ((2 * n + d) \div (2 * d)) * Scale
\* Math.round(amount * clamp(feeRate))
PlatformFee(amount, pct) == MathRound(amount * ClampRate(pct), Scale * 100)

CallPayDriver(s, caller, rideId) ==
    /\ CanStart(s)
    /\ req' = [req EXCEPT ![s] =
          IF ~uidOrThrow(caller) THEN Rejected("payDriver", "unauthenticated")
          ELSE IF rideId = NoVal THEN Rejected("payDriver", "invalid-argument")
          ELSE [Idle EXCEPT !.pc = "tx_ride", !.op = "payDriver", !.caller = caller,
                            !.target = rideId]]
    /\ UNCHANGED <<data, opening, fx, pg>>

\* The error the checks on the ride document raise, "" when they all pass.
RideError(ride, riderUid) ==
    IF ride.userId # riderUid THEN "permission-denied"
    ELSE IF ride.status # "on_trip" THEN "failed-precondition"
    ELSE IF ride.driverId = NoVal THEN "failed-precondition"
    ELSE IF ride.fare <= 0 THEN "failed-precondition"
    ELSE ""

PayDriverReadRide(s) ==
    /\ req[s].pc = "tx_ride" /\ req[s].op = "payDriver"
    /\ LET r == [req[s] EXCEPT !.attempts = @ + 1]
           ride == rides[r.target]
       IN req' = [req EXCEPT ![s] =
             IF ~ride.exists THEN Finish(r, "not-found")
             ELSE IF Settled(ride) THEN Finish(r, "ok")
             ELSE IF RideError(ride, r.caller) # ""
                  THEN Finish(r, RideError(ride, r.caller))
                  ELSE [r EXCEPT !.pc = "tx_wallets", !.payee = ride.driverId,
                                 !.amt = ride.fare, !.rv = <<0, 0, rver[r.target]>>]]
    /\ UNCHANGED <<data, opening, fx, pg>>

PayDriverReadWallets(s, feeRate) ==
    /\ req[s].pc = "tx_wallets" /\ req[s].op = "payDriver"
    /\ LET r == req[s]
           riderBal == ReadBalance(wallets, r.caller)
       IN req' = [req EXCEPT ![s] =
             IF Insufficient(riderBal, r.amt)
             THEN Finish(r, "failed-precondition")
             ELSE [r EXCEPT !.pc = "tx_commit", !.pbal = riderBal, !.fee = feeRate,
                            !.cbal = ReadBalance(wallets, r.payee),
                            !.rv = <<wver[r.caller], wver[r.payee], @[3]>>]]
    /\ UNCHANGED <<data, opening, fx, pg>>

PayDriverCommit(s) ==
    /\ req[s].pc = "tx_commit" /\ req[s].op = "payDriver"
    /\ LET r == req[s]
           platformFee == PlatformFee(r.amt, r.fee)
           payout == r.amt - platformFee
       IN
       IF ReadSetUnchanged(r)
       THEN /\ wallets' = SetBalance(SetBalance(wallets, r.caller, r.pbal - r.amt),
                                     r.payee, r.cbal + payout)
            /\ ledger' = AppendEntry(
                           AppendEntry(ledger, r.caller,
                                       Entry("RIDE_PAYMENT", r.amt, r.target)),
                           r.payee, Entry("RIDE_EARN", payout, r.target))
            /\ rides' = [rides EXCEPT ![r.target].status = "completed",
                                      ![r.target].payStatus = "authorized"]
            /\ driversLive' = [driversLive EXCEPT ![r.payee] = "free"]
            /\ wver' = Bump(wver, {r.caller, r.payee})
            /\ rver' = Bump(rver, {r.target})
            /\ req' = [req EXCEPT ![s] = Finish(r, "ok")]
            /\ UNCHANGED <<orders, opening, fx, pg>>
       ELSE /\ req' = [req EXCEPT ![s] = Retried(r, "tx_ride", "internal")]
            /\ UNCHANGED <<data, opening, fx, pg>>

\* ----------------------------------------------------------- payAndPlaceOrder
OrderInvalid(businessId, itemsIsArray, total) ==
    \/ businessId = NoVal \/ ~itemsIsArray
    \/ IsNaNNumber(total) \/ NumberOf(total) <= 0

CallPayOrder(s, caller, businessId, itemsIsArray, total) ==
    /\ CanStart(s)
    /\ req' = [req EXCEPT ![s] =
          IF ~uidOrThrow(caller) THEN Rejected("payOrder", "unauthenticated")
          ELSE IF OrderInvalid(businessId, itemsIsArray, total)
               THEN Rejected("payOrder", "invalid-argument")
               ELSE [Idle EXCEPT !.pc = "tx_biz", !.op = "payOrder", !.caller = caller,
                                 !.target = businessId, !.amt = NumberOf(total)]]
    /\ UNCHANGED <<data, opening, fx, pg>>

PayOrderReadBusiness(s) ==
    /\ req[s].pc = "tx_biz" /\ req[s].op = "payOrder"
    /\ LET r == [req[s] EXCEPT !.attempts = @ + 1]
           biz == BusinessDocs[r.target]
       IN req' = [req EXCEPT ![s] =
             IF ~biz.exists THEN Finish(r, "not-found")
             ELSE IF biz.ownerId = NoVal
                  THEN Finish(r, "failed-precondition")
                  ELSE [r EXCEPT !.pc = "tx_wallets", !.payee = biz.ownerId]]
    /\ UNCHANGED <<data, opening, fx, pg>>

PayOrderReadBuyer(s) ==
    /\ req[s].pc = "tx_wallets" /\ req[s].op = "payOrder"
    /\ LET r == req[s]
           buyerBal == ReadBalance(wallets, r.caller)
       IN req' = [req EXCEPT ![s] =
             IF Insufficient(buyerBal, r.amt)
             THEN Finish(r, "failed-precondition")
             ELSE [r EXCEPT !.pc = "tx_commit", !.pbal = buyerBal,
                            !.rv = <<wver[r.caller], 0, 0>>]]
    /\ UNCHANGED <<data, opening, fx, pg>>

PayOrderCommit(s) ==
    /\ req[s].pc = "tx_commit" /\ req[s].op = "payOrder"
    /\ LET r == req[s] IN
       IF ReadSetUnchanged(r)
       THEN /\ wallets' = IncrementBalance(SetBalance(wallets, r.caller, r.pbal - r.amt),
                                           r.payee, r.amt)
            /\ orders' = Append(orders, [businessId |-> r.target, ownerId |-> r.payee,
                                         userId |-> r.caller, total |-> r.amt,
                                         status |-> "paid"])
            /\ wver' = Bump(wver, {r.caller, r.payee})
            /\ req' = [req EXCEPT ![s] = Finish(r, "ok")]
            /\ UNCHANGED <<ledger, rides, rver, driversLive, opening, fx, pg>>
       ELSE /\ req' = [req EXCEPT ![s] = Retried(r, "tx_biz", "internal")]
            /\ UNCHANGED <<data, opening, fx, pg>>

\* ------------------------------------------------------------------ fxConvert
\* Mutant: the codes are compared as given.
toUpperCaseNone(c) == c

\* String.prototype.toUpperCase on the currency codes in use
toUpperCase(c) == CASE c = "zar" -> "ZAR" [] c \in {"usd", "Usd"} -> "USD" [] OTHER -> c

\* What one rate provider answers: a numeric result with HTTP success ("num"), a
\* numeric result with an HTTP error status ("errnum"), no numeric result ("bad"),
\* or a network failure that makes fetch throw ("throw").
FxKinds == {"throw", "bad", "errnum", "num"}
FxOutcomes == [1..3 -> FxKinds]

\* The number provider p quotes for converting amount: the providers' rates differ
\* slightly (18.1234, 18.25 and 17.9 units per USD) and a quote is not a whole
\* number of hundredths in general.
Quote(p, amount, from, to) ==
    LET whole == CASE p = 1 -> 18 [] p = 2 -> 18 [] OTHER -> 17
        frac == CASE p = 1 -> 1234 [] p = 2 -> 2500 [] OTHER -> 9000
    IN IF from = "USD" THEN amount * whole + (amount * frac) \div 10000
       ELSE (amount * 10000) \div (whole * 10000 + frac)

Returned(v) == [thrown |-> FALSE, v |-> v]
Thrown == [thrown |-> TRUE, v |-> 0]

\* fxConvert(amount, from, to) when FX_API_KEY is set or not (hasKey) and the three
\* providers answer o[1], o[2], o[3] if called.
fxConvert(amount, from, to, hasKey, o) ==
    IF toUpperCase(from) = toUpperCase(to) THEN Returned(amount)
    ELSE IF hasKey /\ o[1] = "num"
         THEN Returned(Quote(1, amount, toUpperCase(from), toUpperCase(to)))
    ELSE IF o[2] = "num"
         THEN Returned(Quote(2, amount, toUpperCase(from), toUpperCase(to)))
    ELSE IF o[3] = "throw" THEN Thrown
    ELSE IF o[3] \in {"num", "errnum"}
         THEN Returned(Quote(3, amount, toUpperCase(from), toUpperCase(to)))
    ELSE Returned(amount)

\* fxConvert followed call by call: which providers are asked and what each answers.
FxCurrencies == {"ZAR", "zar", "USD", "Usd"}
FxAmounts == {0, 5 * Scale, 12345, 100 * Scale}

FxInit ==
    /\ wallets = Empty.w /\ ledger = Empty.l /\ wver = Empty.v
    /\ opening = [u \in Users |-> 0]
    /\ rides = RideDocs
    /\ rver = [r \in Rides |-> 0]
    /\ driversLive = [u \in Users |-> "absent"]
    /\ orders = <<>>
    /\ req = [s \in Slots |-> Idle]
    /\ pg = NoPg
    /\ \E a \in FxAmounts, f \in FxCurrencies, t \in FxCurrencies, k \in BOOLEAN :
          fx = [NoFx EXCEPT !.pc = "start", !.amount = a, !.from = f, !.to = t, !.hasKey = k]

\* A provider was asked and answered k.
Asked(f, p, k) == [f EXCEPT !.calls = Append(@, p), !.seen = Append(@, k)]

\* if (from.toUpperCase() === to.toUpperCase()) return Number(amount); ... if (fxKey)
FxStart ==
    /\ fx.pc = "start"
    /\ fx' = IF toUpperCase(fx.from) = toUpperCase(fx.to)
             THEN [fx EXCEPT !.pc = "done", !.result = fx.amount]
             ELSE [fx EXCEPT !.pc = IF fx.hasKey THEN "primary" ELSE "secondary"]
    /\ UNCHANGED <<data, opening, req, pg>>

\* Mutant: the secondary provider is asked whatever the primary answered.
FxPrimaryGoesOn(k) ==
    /\ fx.pc = "primary"
    /\ fx' = [Asked(fx, 1, k) EXCEPT !.pc = "secondary"]
    /\ UNCHANGED <<data, opening, req, pg>>

\* v6.exchangerate-api.com, inside try/catch
FxPrimary(k) ==
    /\ fx.pc = "primary"
    /\ fx' = IF k = "num"
             THEN [Asked(fx, 1, k) EXCEPT !.pc = "done",
                      !.result = Quote(1, fx.amount, toUpperCase(fx.from), toUpperCase(fx.to))]
             ELSE [Asked(fx, 1, k) EXCEPT !.pc = "secondary"]
    /\ UNCHANGED <<data, opening, req, pg>>

\* api.frankfurter.app, inside try/catch
FxSecondary(k) ==
    /\ fx.pc = "secondary"
    /\ fx' = IF k = "num"
             THEN [Asked(fx, 2, k) EXCEPT !.pc = "done",
                      !.result = Quote(2, fx.amount, toUpperCase(fx.from), toUpperCase(fx.to))]
             ELSE [Asked(fx, 2, k) EXCEPT !.pc = "tertiary"]
    /\ UNCHANGED <<data, opening, req, pg>>

\* api.exchangerate.host: no try/catch and no look at res.ok
FxTertiary(k) ==
    /\ fx.pc = "tertiary"
    /\ fx' = CASE k = "throw" -> [Asked(fx, 3, k) EXCEPT !.pc = "done", !.thrown = TRUE]
               [] k \in {"num", "errnum"} ->
                    [Asked(fx, 3, k) EXCEPT !.pc = "done",
                       !.result = Quote(3, fx.amount, toUpperCase(fx.from), toUpperCase(fx.to))]
               [] OTHER -> [Asked(fx, 3, k) EXCEPT !.pc = "done", !.result = fx.amount]
    /\ UNCHANGED <<data, opening, req, pg>>

FxNext ==
    \/ FxStart
    \/ \E k \in FxKinds : FxPrimary(k)
    \/ \E k \in FxKinds : FxSecondary(k)
    \/ \E k \in FxKinds : FxTertiary(k)

FxSpec == FxInit /\ [][FxNext]_vars

\* ------------------------------------------- capturePayPalOrder, guest capture
\* What the gateway answers a capture call: the token request fails, the capture
\* answers a non-success HTTP status, a success with a status other than COMPLETED,
\* or COMPLETED.
GwAnswers == {"token_error", "http_error", "not_completed", "completed"}

\* Mutant: the status in the capture's body is not looked at.
CaptureRefusedStatusIgnored(answer) == answer = "http_error"

\* !capRes.ok || capBody?.status !== "COMPLETED"
CaptureRefused(answer) == answer = "http_error" \/ answer # "completed"

CallCapture(s, caller, orderId) ==
    /\ CanStart(s)
    /\ req' = [req EXCEPT ![s] =
          IF ~uidOrThrow(caller) THEN Rejected("capture", "unauthenticated")
          ELSE IF orderId = NoVal THEN Rejected("capture", "invalid-argument")
          ELSE [Idle EXCEPT !.pc = "gateway", !.op = "capture", !.caller = caller,
                            !.target = orderId]]
    /\ UNCHANGED <<data, opening, fx, pg>>

\* The request body may carry any other field, here an identity the sender claims.
ClaimedUids == {NoVal, "u2"}
CallGuestCapture(s, orderId, claimedUid) ==
    /\ CanStart(s)
    /\ req' = [req EXCEPT ![s] =
          IF orderId = NoVal THEN Rejected("guestCapture", "http-400")
          ELSE [Idle EXCEPT !.pc = "gateway", !.op = "guestCapture", !.target = orderId,
                            !.claimed = claimedUid]]
    /\ UNCHANGED <<data, opening, fx, pg>>

\* Mutant: an identity in the request body takes precedence over the order's custom_id.
GuestRecipientFromBody(claimedUid, capture) ==
    IF claimedUid # NoVal THEN claimedUid ELSE capture.customId

\* const recipientUid = pu?.custom_id
GuestRecipient(claimedUid, capture) == capture.customId

\* Mutant: the answer is rounded to whole units.
toFixed0(n) == ((n + Scale \div 2) \div Scale) * Scale

\* Number(n.toFixed(2)) for n >= 0: the nearest hundredth
toFixed2(n) == ((n + Scale \div 200) \div (Scale \div 100)) * (Scale \div 100)

\* The body of a capture's success answer
CaptureResponse(op, credit) ==
    [status |-> IF op = "capture" THEN "SUCCESS" ELSE "ok", credited |-> toFixed2(credit),
     currency |-> getBaseCurrency]

\* ------------------------------------- createPayPalOrder, POST /guest/paypal/create
PAYPAL_SUPPORTED ==
    {"AUD", "BRL", "CAD", "CNY", "CZK", "DKK", "EUR", "HKD", "HUF", "ILS", "JPY", "MYR",
     "MXN", "TWD", "NZD", "NOK", "PHP", "PLN", "GBP", "SGD", "SEK", "CHF", "THB", "USD"}

\* Mutant: every currency is taken as supported.
SupportedAlways(currency) == TRUE

\* PAYPAL_SUPPORTED.has(orderCurrency)
Supported(currency) == currency \in PAYPAL_SUPPORTED

\* The error an order-creation endpoint answers with after its validation
CreateFailure(op) == IF op = "guestCreate" THEN "http-500" ELSE "internal"

\* The order as first prepared: the requested currency and amount, the guest endpoint
\* writing the amount with Number(amount).toFixed(2)
Prepared(op, customId, amount, inputCurrency) ==
    [currency |-> inputCurrency,
     amount |-> IF op = "guestCreate" THEN toFixed2(amount) ELSE amount,
     customId |-> customId]

\* The request once its input is accepted: target is the requested currency
CreateAccepted(op, caller, customId, amount, currency) ==
    LET inputCurrency == toUpperCase(IF currency = NoVal THEN getBaseCurrency ELSE currency)
    IN [Idle EXCEPT !.pc = IF Supported(inputCurrency) THEN "create_gw" ELSE "convert",
                    !.op = op, !.caller = caller, !.payee = customId,
                    !.amt = NumberOf(amount), !.target = inputCurrency,
                    !.order = Prepared(op, customId, NumberOf(amount), inputCurrency)]

CallCreateOrder(s, caller, amount, currency) ==
    /\ CanStart(s)
    /\ req' = [req EXCEPT ![s] =
          IF ~uidOrThrow(caller) THEN Rejected("createOrder", "unauthenticated")
          ELSE IF Falsy(amount) \/ IsNaNNumber(amount)
               THEN Rejected("createOrder", "invalid-argument")
               ELSE CreateAccepted("createOrder", caller, caller, amount, currency)]
    /\ UNCHANGED <<data, opening, fx, pg>>

CallGuestCreate(s, recipientUid, amount, currency) ==
    /\ CanStart(s)
    /\ req' = [req EXCEPT ![s] =
          IF recipientUid = NoVal \/ Falsy(amount) \/ IsNaNNumber(amount)
          THEN Rejected("guestCreate", "http-400")
          ELSE CreateAccepted("guestCreate", NoVal, recipientUid, amount, currency)]
    /\ UNCHANGED <<data, opening, fx, pg>>

\* const converted = await fxConvert(Number(amount), inputCurrency, PAYPAL_FALLBACK_CCY)
CreateConvert(s) ==
    /\ req[s].pc = "convert" /\ req[s].op \in {"createOrder", "guestCreate"}
    /\ LET r == req[s]
       IN \E converted \in {fxConvert(r.amt, r.target, PAYPAL_FALLBACK_CCY, hasKey, o) :
                               hasKey \in BOOLEAN, o \in FxOutcomes} :
             req' = [req EXCEPT ![s] =
                IF converted.thrown THEN Finish(r, CreateFailure(r.op))
                ELSE [r EXCEPT !.pc = "create_gw",
                               !.order = [currency |-> PAYPAL_FALLBACK_CCY,
                                          amount |-> toFixed2(converted.v),
                                          customId |-> r.payee]]]
    /\ UNCHANGED <<data, opening, fx, pg>>

\* What the gateway answers an order creation: the token request fails, the creation
\* answers a non-success HTTP status, or the order is created.
CreateAnswers == {"token_error", "http_error", "created"}

\* getPayPalAccessToken and POST /v2/checkout/orders; the answer to the caller repeats
\* the order's currency and amount
CreateGateway(s) ==
    /\ req[s].pc = "create_gw" /\ req[s].op \in {"createOrder", "guestCreate"}
    /\ \E answer \in CreateAnswers :
          req' = [req EXCEPT ![s] =
             Finish([req[s] EXCEPT !.gw = answer],
                    IF answer = "created" THEN "ok" ELSE CreateFailure(req[s].op))]
    /\ UNCHANGED <<data, opening, fx, pg>>

\* Order creation alone, over requested amounts and currencies
CreateAmounts == {Raw("none", 0), Raw("nan", 0), Num(50 * Scale), Num(12345)}
CreateCurrencies == {NoVal, "ZAR", "usd", "EUR"}

CreateInit ==
    /\ wallets = Empty.w /\ ledger = Empty.l /\ wver = Empty.v
    /\ opening = [u \in Users |-> 0]
    /\ rides = RideDocs
    /\ rver = [r \in Rides |-> 0]
    /\ driversLive = [u \in Users |-> "absent"]
    /\ orders = <<>>
    /\ req = [s \in Slots |-> Idle]
    /\ fx = NoFx
    /\ pg = NoPg

CreateNext ==
    \/ \E s \in Slots, c \in {NoVal, "u1"}, a \in CreateAmounts, y \in CreateCurrencies :
          CallCreateOrder(s, c, a, y)
    \/ \E s \in Slots, u \in {NoVal, "u2"}, a \in CreateAmounts, y \in CreateCurrencies :
          CallGuestCreate(s, u, a, y)
    \/ \E s \in Slots : CreateConvert(s)
    \/ \E s \in Slots : CreateGateway(s)

CreateSpec == CreateInit /\ [][CreateNext]_vars

\* The error a capture endpoint answers with
CaptureFailure(op) == IF op = "guestCapture" THEN "http-500" ELSE "internal"

\* getPayPalAccessToken, POST .../capture, and the conversion to the base currency
CaptureGateway(s) ==
    /\ req[s].pc = "gateway" /\ req[s].op \in {"capture", "guestCapture"}
    /\ LET r == req[s]
           guest == r.op = "guestCapture"
           capture == GwOrders[r.target]
           recipient == IF guest THEN GuestRecipient(r.claimed, capture) ELSE r.caller
           \* authenticated: a capture without amount or currency is an error;
           \* guest: Number(value || 0) and String(currency_code || "USD")
           missing == IF guest THEN recipient = NoVal ELSE ~capture.hasAmount
           gross == IF capture.hasAmount THEN capture.value ELSE 0
           grossCurrency == toUpperCase(IF capture.hasAmount THEN capture.currency
                                        ELSE "USD")
           base == getBaseCurrency
           credits == IF grossCurrency = base THEN {Returned(gross)}
                      ELSE {fxConvert(gross, grossCurrency, base, hasKey, o) :
                               hasKey \in BOOLEAN, o \in FxOutcomes}
       IN \E answer \in GwAnswers :
             LET refused == answer = "token_error" \/ CaptureRefused(answer) IN
             \E credit \in (IF ~refused /\ ~missing THEN credits ELSE {Thrown}) :
                req' = [req EXCEPT ![s] =
                   IF refused \/ missing \/ credit.thrown
                   THEN Finish([r EXCEPT !.gw = answer], CaptureFailure(r.op))
                   ELSE [r EXCEPT !.pc = "tx_wallets", !.payee = recipient,
                                  !.amt = credit.v, !.gw = answer]]
    /\ UNCHANGED <<data, opening, fx, pg>>

\* Mutant: the capture is requested inside the transaction body, after the read.
CaptureReadRefetch(s) ==
    /\ req[s].pc = "tx_wallets" /\ req[s].op \in {"capture", "guestCapture"}
    /\ req' = [req EXCEPT ![s] = [req[s] EXCEPT !.pc = "gateway", !.attempts = @ + 1]]
    /\ UNCHANGED <<data, opening, fx, pg>>

\* const wSnap = await t.get(wRef)
CaptureRead(s) ==
    /\ req[s].pc = "tx_wallets" /\ req[s].op \in {"capture", "guestCapture"}
    /\ LET r == req[s]
       IN req' = [req EXCEPT ![s] =
             [r EXCEPT !.pc = "tx_commit", !.attempts = @ + 1,
                       !.pbal = ReadBalance(wallets, r.payee),
                       !.rv = <<wver[r.payee], 0, 0>>]]
    /\ UNCHANGED <<data, opening, fx, pg>>

CaptureCommit(s) ==
    /\ req[s].pc = "tx_commit" /\ req[s].op \in {"capture", "guestCapture"}
    /\ LET r == req[s] IN
       IF ReadSetUnchanged(r)
       THEN /\ wallets' = SetBalance(wallets, r.payee, r.pbal + r.amt)
            /\ ledger' = AppendEntry(ledger, r.payee,
                                     TopUpEntry(r.amt, r.target, GwOrders[r.target].captureId))
            /\ wver' = Bump(wver, {r.payee})
            /\ req' = [req EXCEPT ![s] =
                         Finish([r EXCEPT !.ret = CaptureResponse(r.op, r.amt)], "ok")]
            /\ UNCHANGED <<rides, rver, driversLive, orders, opening, fx, pg>>
       ELSE /\ req' = [req EXCEPT ![s] = Retried(r, "tx_wallets", CaptureFailure(r.op))]
            /\ UNCHANGED <<data, opening, fx, pg>>

\* ----------------------------------------------------------- getWalletBalance
CallGetBalance(s, caller) ==
    /\ CanStart(s)
    /\ req' = [req EXCEPT ![s] =
          IF ~uidOrThrow(caller) THEN Rejected("getBalance", "unauthenticated")
          ELSE [Idle EXCEPT !.pc = "get_read", !.op = "getBalance", !.caller = caller]]
    /\ UNCHANGED <<data, opening, fx, pg>>

\* const snap = await ref.get()
GetBalanceRead(s) ==
    /\ req[s].pc = "get_read"
    /\ LET r == req[s]
       IN req' = [req EXCEPT ![s] =
             IF ~wallets[r.caller].exists THEN [r EXCEPT !.pc = "get_set"]
             ELSE Finish([r EXCEPT !.amt = wallets[r.caller].balance], "ok")]
    /\ UNCHANGED <<data, opening, fx, pg>>

\* await ref.set({uid, balance: 0, ...}): a plain set, outside any transaction
GetBalanceCreate(s) ==
    /\ req[s].pc = "get_set"
    /\ wallets' = [wallets EXCEPT ![req[s].caller] = [exists |-> TRUE, balance |-> 0]]
    /\ wver' = Bump(wver, {req[s].caller})
    /\ req' = [req EXCEPT ![s] = Finish([req[s] EXCEPT !.amt = 0], "ok")]
    /\ UNCHANGED <<ledger, rides, rver, driversLive, orders, opening, fx, pg>>

Next ==
    \/ \E s \in Slots, c \in Callers, t \in Callers, a \in TransferAmounts :
          CallTransfer(s, c, t, a)
    \/ \E s \in Slots : TransferRead(s)
    \/ \E s \in Slots : TransferCommit(s)
    \/ \E s \in Slots, c \in Callers, b \in Businesses \cup {NoVal}, i \in BOOLEAN,
          t \in OrderTotals : CallPayOrder(s, c, b, i, t)
    \/ \E s \in Slots : PayOrderReadBusiness(s)
    \/ \E s \in Slots : PayOrderReadBuyer(s)
    \/ \E s \in Slots : PayOrderCommit(s)
    \/ \E s \in Slots, c \in Callers, r \in Rides \cup {NoVal} : CallPayDriver(s, c, r)
    \/ \E s \in Slots : PayDriverReadRide(s)
    \/ \E s \in Slots, f \in FeeRates : PayDriverReadWallets(s, f)
    \/ \E s \in Slots : PayDriverCommit(s)
    \/ \E s \in Slots, c \in Callers, o \in OrderIds \cup {NoVal} : CallCapture(s, c, o)
    \/ \E s \in Slots, o \in OrderIds \cup {NoVal}, c \in ClaimedUids : CallGuestCapture(s, o, c)
    \/ \E s \in Slots : CaptureGateway(s)
    \/ \E s \in Slots : CaptureRead(s)
    \/ \E s \in Slots : CaptureCommit(s)
    \/ \E s \in Slots, c \in Callers : CallGetBalance(s, c)
    \/ \E s \in Slots : GetBalanceRead(s)
    \/ \E s \in Slots : GetBalanceCreate(s)

Spec == Init /\ [][Next]_vars

\* ------------------------------------------------------------- getTransactions
\* Mutant: the page size has no upper bound.
ClampLimitHigh(limit) == Max(1, IF limit.k = "none" THEN 20 ELSE limit.v)

\* Math.max(1, Math.min(50, Number(_limit ?? 20))) for a missing or numeric limit
ClampLimit(limit) == Max(1, Min(50, IF limit.k = "none" THEN 20 ELSE limit.v))

\* Mutant: the page starts at the cursor's entry.
StartAt(cursor) == cursor

\* q.startAfter(curSnap): entry ids are positions in the ledger, the newest the highest,
\* and the page starts at the entry next older than the cursor's
StartAfter(cursor) == cursor - 1

\* The page the query answers for a ledger of n entries: at most limit ids, newest first,
\* after the cursor's entry when the cursor names an entry (0: no cursor), and the id of
\* the last item as nextCursor (0: null) exactly when the page is full.
Page(n, limit, cursor) ==
    LET first == IF cursor # 0 /\ cursor \in 1..n THEN StartAfter(cursor) ELSE n
        size == Min(limit, first)
        items == [i \in 1..size |-> first - i + 1]
    IN [items |-> items,
        nextCursor |-> IF size = limit THEN items[size] ELSE 0]

\* One call of getTransactions by the paging client, with the cursor it holds; a limit
\* that is not a number makes the query builder throw.
GetTransactions(limit) ==
    IF IsNaNNumber(limit) /\ limit.k # "none"
    THEN [pg EXCEPT !.pc = "failed", !.limit = limit, !.owner = "u1"]
    ELSE LET page == Page(Len(ledger["u1"]), ClampLimit(limit), pg.cursor)
         IN [pg EXCEPT !.pc = IF page.nextCursor = 0 THEN "end" ELSE "more",
                       !.owner = "u1", !.limit = limit,
                       !.cursor = page.nextCursor,
                       !.got = pg.got \o page.items,
                       !.sizes = Append(pg.sizes, Len(page.items)),
                       !.cursors = Append(pg.cursors, page.nextCursor)]

\* The first call, without a cursor
PageStart(limit) ==
    /\ pg.pc = "none"
    /\ pg' = GetTransactions(limit)
    /\ UNCHANGED <<data, opening, req, fx>>

\* A further call with the same limit, passing the nextCursor of the page before
PageMore ==
    /\ pg.pc = "more"
    /\ pg' = GetTransactions(pg.limit)
    /\ UNCHANGED <<data, opening, req, fx>>

\* Ledger lengths and limits of the paging runs
PageLengths == {0, 1, 2, 3, 5, 20, 25, 40, 50, 51, 60}
PageLimits == {Raw("none", 0), Raw("nan", 0), Num(0 - 3), Num(0), Num(1), Num(2), Num(3),
               Num(20), Num(50), Num(51), Num(1000)}

\* u1's wallet holds a ledger of n top-ups of one unit each
PageInit ==
    /\ \E n \in PageLengths :
          /\ ledger = [u \in Users |-> IF u = "u1" THEN [i \in 1..n |-> Entry("TOP_UP", Scale, NoVal)]
                                       ELSE <<>>]
          /\ wallets = [u \in Users |-> IF u = "u1" THEN [exists |-> TRUE, balance |-> n * Scale]
                                        ELSE [exists |-> FALSE, balance |-> 0]]
          /\ opening = [u \in Users |-> 0]
    /\ wver = Empty.v
    /\ rides = RideDocs
    /\ rver = [r \in Rides |-> 0]
    /\ driversLive = [u \in Users |-> "absent"]
    /\ orders = <<>>
    /\ req = [s \in Slots |-> Idle]
    /\ fx = NoFx
    /\ pg = NoPg

PageNext ==
    \/ \E limit \in PageLimits : PageStart(limit)
    \/ PageMore

PageSpec == PageInit /\ [][PageNext]_vars

\* A request's call of getTransactions, without a cursor
CallGetTransactions(s, caller, limit) ==
    /\ CanStart(s)
    /\ req' = [req EXCEPT ![s] =
          IF ~uidOrThrow(caller) THEN Rejected("getTransactions", "unauthenticated")
          ELSE IF IsNaNNumber(limit) /\ limit.k # "none"
               THEN Rejected("getTransactions", "internal")
               ELSE [Idle EXCEPT !.pc = "page_read", !.op = "getTransactions",
                                 !.caller = caller, !.fee = ClampLimit(limit)]]
    /\ UNCHANGED <<data, opening, fx, pg>>

\* const snaps = await q.get(): amt is the number of items answered
GetTransactionsRead(s) ==
    /\ req[s].pc = "page_read"
    /\ LET r == req[s]
           page == Page(Len(ledger[r.caller]), r.fee, 0)
       IN req' = [req EXCEPT ![s] = Finish([r EXCEPT !.amt = Len(page.items)], "ok")]
    /\ UNCHANGED <<data, opening, fx, pg>>

\* ----------------------------------------------------------- POST /paypal/webhook
\* What the gateway answers the signature check: the token request fails, the
\* verification call throws, or its body carries a verification status or none.
WebhookAnswers == {"token_error", "throws", "SUCCESS", "FAILURE", NoVal}

\* Mutant: any verification status is accepted.
VerificationFailedNever(answer) == answer = NoVal

\* verifyJson.verification_status !== "SUCCESS"
VerificationFailed(answer) == answer # "SUCCESS"

\* requireEnv("PAYPAL_WEBHOOK_ID") throws when the identity is not configured
CallWebhook(s, configured) ==
    /\ CanStart(s)
    /\ req' = [req EXCEPT ![s] =
          IF ~configured THEN Rejected("webhook", "http-500")
          ELSE [Idle EXCEPT !.pc = "verify", !.op = "webhook"]]
    /\ UNCHANGED <<data, opening, fx, pg>>

\* getPayPalAccessToken, POST verify-webhook-signature and the answer
WebhookVerify(s) ==
    /\ req[s].pc = "verify"
    /\ \E answer \in WebhookAnswers :
          req' = [req EXCEPT ![s] =
             Finish([req[s] EXCEPT !.gw = answer],
                    IF answer \in {"token_error", "throws"} THEN "http-500"
                    ELSE IF VerificationFailed(answer) THEN "http-400" ELSE "http-200")]
    /\ UNCHANGED <<data, opening, fx, pg>>

\* -------------------------------------------------------------- every endpoint
ApiAmounts == {Num(50 * Scale)}
ApiCurrencies == {NoVal, "usd"}
ApiLimits == {Raw("none", 0), Raw("nan", 0), Num(1)}

ApiNext ==
    \/ Next
    \/ \E s \in Slots, c \in Callers, a \in ApiAmounts, y \in ApiCurrencies :
          CallCreateOrder(s, c, a, y)
    \/ \E s \in Slots, a \in ApiAmounts, y \in ApiCurrencies : CallGuestCreate(s, "u2", a, y)
    \/ \E s \in Slots : CreateConvert(s)
    \/ \E s \in Slots : CreateGateway(s)
    \/ \E s \in Slots, c \in Callers, limit \in ApiLimits : CallGetTransactions(s, c, limit)
    \/ \E s \in Slots : GetTransactionsRead(s)
    \/ \E s \in Slots, configured \in BOOLEAN : CallWebhook(s, configured)
    \/ \E s \in Slots : WebhookVerify(s)

ApiSpec == Init /\ [][ApiNext]_vars

\* ------------------------------------------------- settlements run to their end
\* u1 holds 100 from the capture of o1 and u2 holds 50 from an earlier top-up.
BothFunded ==
    [w |-> [u \in Users |-> CASE u = "u1" -> [exists |-> TRUE, balance |-> 100 * Scale]
                              [] u = "u2" -> [exists |-> TRUE, balance |-> 50 * Scale]
                              [] OTHER -> [exists |-> FALSE, balance |-> 0]],
     l |-> [u \in Users |-> CASE u = "u1" -> <<TopUpEntry(100 * Scale, "o1", "cap1")>>
                              [] u = "u2" -> <<TopUpEntry(50 * Scale, "o4", "cap4")>>
                              [] OTHER -> <<>>],
     v |-> [u \in Users |-> IF u = "u3" THEN 0 ELSE 1]]

SettleInit ==
    /\ wallets = BothFunded.w /\ ledger = BothFunded.l /\ wver = BothFunded.v
    /\ opening = [u \in Users |-> ReadBalance(BothFunded.w, u)]
    /\ rides = RideDocs
    /\ rver = [r \in Rides |-> 0]
    /\ driversLive = [u \in Users |-> IF u = "u1" THEN "absent" ELSE "occupied"]
    /\ orders = <<>>
    /\ req = [s \in Slots |-> Idle]
    /\ fx = NoFx
    /\ pg = NoPg

SettleNext ==
    \/ \E s \in Slots, c \in Callers, t \in Callers, a \in TransferAmounts :
          CallTransfer(s, c, t, a)
    \/ \E s \in Slots : TransferRead(s)
    \/ \E s \in Slots : TransferCommit(s)
    \/ \E s \in Slots, c \in Callers, b \in Businesses \cup {NoVal}, i \in BOOLEAN,
          t \in OrderTotals : CallPayOrder(s, c, b, i, t)
    \/ \E s \in Slots : PayOrderReadBusiness(s)
    \/ \E s \in Slots : PayOrderReadBuyer(s)
    \/ \E s \in Slots : PayOrderCommit(s)
    \/ \E s \in Slots, c \in Callers, r \in Rides \cup {NoVal} : CallPayDriver(s, c, r)
    \/ \E s \in Slots : PayDriverReadRide(s)
    \/ \E s \in Slots, f \in FeeRates : PayDriverReadWallets(s, f)
    \/ \E s \in Slots : PayDriverCommit(s)

\* The next step of a settlement that has been called: the runtime runs an invoked
\* handler on and the store answers every read and commit.
Progress(s) ==
    \/ TransferRead(s) \/ TransferCommit(s)
    \/ PayOrderReadBusiness(s) \/ PayOrderReadBuyer(s) \/ PayOrderCommit(s)
    \/ PayDriverReadRide(s) \/ (\E f \in FeeRates : PayDriverReadWallets(s, f))
    \/ PayDriverCommit(s)

SettleSpec == SettleInit /\ [][SettleNext]_vars /\ \A s \in Slots : WF_vars(Progress(s))

\* =================================================================== claims
RECURSIVE SignedSum(_)
\* The sum of the signed amounts of a ledger: credits positive, debits negative.
SignedSum(l) ==
    IF l = <<>> THEN 0
    ELSE LET e == l[Len(l)]
             sign == IF e.type \in {"TOP_UP", "TRANSFER_IN", "RIDE_EARN"} THEN 1 ELSE 0 - 1
         IN SignedSum(SubSeq(l, 1, Len(l) - 1)) + sign * e.amount

RECURSIVE TotalOf(_, _)
TotalOf(w, us) ==
    IF us = {} THEN 0
    ELSE LET u == CHOOSE x \in us : TRUE IN ReadBalance(w, u) + TotalOf(w, us \ {u})
\* The sum of all wallet balances
Total(w) == TotalOf(w, Users)

\* Request s commits its transaction in this step and answers success.
CommitsOk(s, ops) ==
    /\ req[s].op \in ops /\ req[s].pc = "tx_commit"
    /\ req'[s].pc = "done" /\ req'[s].result = "ok"

\* Request s answers an error in this step.
Fails(s) == req[s].pc # "done" /\ req'[s].pc = "done" /\ req'[s].result # "ok"

\* The entries of a kind that carry a reference, over all ledgers
EntriesOf(type, ref) ==
    UNION {{<<u, i>> : i \in {j \in DOMAIN ledger[u] :
                                ledger[u][j].type = type /\ ledger[u][j].ref = ref}} :
           u \in Users}

\* C1: in every reachable state each wallet's balance equals the signed sum of the
\* entries of its ledger.
C1_LedgerReconciles ==
    \A u \in Users : ReadBalance(wallets, u) = SignedSum(ledger[u])

\* C2: a step changes the sum of all balances only by the credit of a committed
\* top-up capture (plus) or the platform fee of a settled ride (minus); every other
\* step leaves the sum unchanged.
C2_MoneyConserved ==
    [][/\ \A s \in Slots : CommitsOk(s, {"capture", "guestCapture"})
             => Total(wallets') = Total(wallets) + req[s].amt
       /\ \A s \in Slots : CommitsOk(s, {"payDriver"})
             => Total(wallets') = Total(wallets) - PlatformFee(req[s].amt, req[s].fee)
       /\ (~ \E s \in Slots : CommitsOk(s, {"capture", "guestCapture", "payDriver"}))
             => Total(wallets') = Total(wallets)]_vars

\* Two transfers of one sender, each affordable alone and not both together
OverdrawingPair(s, q) ==
    /\ s # q /\ req[s].op = "transfer" /\ req[q].op = "transfer"
    /\ req[s].caller # NoVal /\ req[s].caller = req[q].caller
    /\ req[s].amt <= opening[req[s].caller] /\ req[q].amt <= opening[req[s].caller]
    /\ req[s].amt + req[q].amt > opening[req[s].caller]

\* C3: of two transfers from a wallet of balance B with a1 <= B, a2 <= B and
\* a1 + a2 > B at most one commits; once both have answered, one succeeded, the other
\* failed with failed-precondition and the sender holds B minus the committed amount.
C3_NoConcurrentOverdraw ==
    \A s, q \in Slots : OverdrawingPair(s, q) =>
        /\ ~(req[s].result = "ok" /\ req[q].result = "ok")
        /\ (req[s].pc = "done" /\ req[q].pc = "done" /\ req[s].result = "ok") =>
              /\ req[q].result = "failed-precondition"
              /\ ReadBalance(wallets, req[s].caller) = opening[req[s].caller] - req[s].amt
        /\ (req[s].pc = "done" /\ req[q].pc = "done") =>
              (req[s].result = "ok" \/ req[q].result = "ok")

C3_Witness ==
    \E s, q \in Slots :
        /\ OverdrawingPair(s, q) /\ req[s].pc = "done" /\ req[q].pc = "done"
        /\ req[s].result = "ok" /\ req[q].attempts = 2

\* C4: a successful transfer of amt takes exactly amt from the sender, gives exactly
\* amt to the recipient (whose wallet exists afterwards), appends one TRANSFER_OUT entry
\* to the sender's ledger and one TRANSFER_IN entry to the recipient's, in one step, and
\* changes no other wallet or ledger.
C4_TransferEffect ==
    [][\A s \in Slots : CommitsOk(s, {"transfer"}) =>
          LET from == req[s].caller
              to == req[s].target
              amt == req[s].amt
          IN /\ wallets'[from] = [exists |-> TRUE, balance |-> ReadBalance(wallets, from) - amt]
             /\ wallets'[to] = [exists |-> TRUE, balance |-> ReadBalance(wallets, to) + amt]
             /\ ledger'[from] = Append(ledger[from], Entry("TRANSFER_OUT", amt, to))
             /\ ledger'[to] = Append(ledger[to], Entry("TRANSFER_IN", amt, from))
             /\ \A u \in Users \ {from, to} : wallets'[u] = wallets[u] /\ ledger'[u] = ledger[u]
             /\ UNCHANGED <<rides, orders>>]_vars

C4_Witness ==
    /\ \E s \in Slots : req[s].op = "transfer" /\ req[s].result = "ok" /\ req[s].amt = 40 * Scale
    /\ wallets["u1"] = [exists |-> TRUE, balance |-> 60 * Scale]
    /\ wallets["u2"] = [exists |-> TRUE, balance |-> 40 * Scale]
    /\ ledger["u1"] = <<TopUpEntry(100 * Scale, "o1", "cap1"), Entry("TRANSFER_OUT", 40 * Scale, "u2")>>
    /\ ledger["u2"] = <<Entry("TRANSFER_IN", 40 * Scale, "u1")>>

settled == <<wallets, ledger, rides, orders>>

\* C6 (first half): a request that answers an error changes no wallet, ledger entry,
\* ride or order in the step that fails it.
ErrorsChangeNothing ==
    [][(\E s \in Slots : Fails(s)) => UNCHANGED settled]_vars

\* C6: a request that answers an error changes nothing, and a settlement that commits
\* applies every part of it in the same step: the payer's debit, the payee's credit,
\* one ledger entry in each wallet whose balance moved, and the ride or order document.
C6_AllOrNothing ==
    [][/\ (\E s \in Slots : Fails(s)) => UNCHANGED settled
       /\ \A s \in Slots :
            CommitsOk(s, {"transfer", "payDriver", "payOrder"}) =>
               LET payer == req[s].caller
                   payee == req[s].payee
               IN /\ ReadBalance(wallets', payer) < ReadBalance(wallets, payer)
                  /\ ReadBalance(wallets', payee) >= ReadBalance(wallets, payee)
                  /\ Len(ledger'[payer]) > Len(ledger[payer])
                  /\ Len(ledger'[payee]) > Len(ledger[payee])
                  /\ (req[s].op = "payDriver" => Settled(rides'[req[s].target]))
                  /\ (req[s].op = "payOrder" => Len(orders') = Len(orders) + 1)
       /\ \A s \in Slots :
            CommitsOk(s, {"capture", "guestCapture"}) =>
               /\ ReadBalance(wallets', req[s].payee)
                     = ReadBalance(wallets, req[s].payee) + req[s].amt
               /\ Len(ledger'[req[s].payee]) = Len(ledger[req[s].payee]) + 1]_vars

\* C7: a settlement request for a ride that payDriverOnComplete has already settled
\* answers ok and changes no balance, writes no entry and leaves the ride as it is.
C7_RideSettlementIdempotent ==
    [][\A s \in Slots :
          (/\ req[s].op = "payDriver" /\ req[s].pc = "tx_ride" /\ req'[s] # req[s]
           /\ EntriesOf("RIDE_PAYMENT", req[s].target) # {})
          => /\ req'[s].pc = "done" /\ req'[s].result = "ok"
             /\ UNCHANGED settled]_vars

C7_Witness ==
    \E s, q \in Slots :
        /\ s < q /\ req[s].op = "payDriver" /\ req[q].op = "payDriver"
        /\ req[s].target = "r1" /\ req[q].target = "r1"
        /\ req[s].result = "ok" /\ req[q].result = "ok" /\ req[q].attempts = 1
        /\ Cardinality(EntriesOf("RIDE_PAYMENT", "r1")) = 1
        /\ Cardinality(EntriesOf("RIDE_EARN", "r1")) = 1

\* C8: in every reachable state at most one RIDE_PAYMENT and one RIDE_EARN entry exist
\* for a ride, and two settlement requests of the rider for one ride leave the rider
\* debited by the fare once.
C8_RideSettledOnce ==
    /\ \A r \in Rides : /\ Cardinality(EntriesOf("RIDE_PAYMENT", r)) <= 1
                        /\ Cardinality(EntriesOf("RIDE_EARN", r)) <= 1
    /\ \A s, q \in Slots :
          (/\ s # q /\ req[s].op = "payDriver" /\ req[q].op = "payDriver"
           /\ req[s].target = req[q].target /\ req[s].target # NoVal
           /\ req[s].pc = "done" /\ req[q].pc = "done"
           /\ EntriesOf("RIDE_PAYMENT", req[s].target) # {}
           /\ rides[req[s].target].driverId # rides[req[s].target].userId)
          => ReadBalance(wallets, rides[req[s].target].userId)
                = opening[rides[req[s].target].userId] - rides[req[s].target].fare

\* Two requests raced for ride r1: one was aborted by the other's commit and re-run.
C8_Witness ==
    \E s, q \in Slots :
        /\ s # q /\ req[s].op = "payDriver" /\ req[q].op = "payDriver"
        /\ req[s].target = "r1" /\ req[q].target = "r1"
        /\ req[s].result = "ok" /\ req[q].pc = "done" /\ req[q].attempts = 2
        /\ Cardinality(EntriesOf("RIDE_PAYMENT", "r1")) = 1

\* fee is F * c / 100 currency units rounded to the nearest whole unit, halves up
IsRoundedFee(fee, F, c) ==
    /\ fee % Scale = 0
    /\ 2 * fee * 100 <= 2 * F * c + 100 * Scale
    /\ 2 * F * c + 100 * Scale < 2 * (fee + Scale) * 100

\* C9: a ride settled with fare F at fee rate r debits the rider exactly F, credits
\* the driver exactly F - round(F * clamp(r, 0, 0.95)) and writes a RIDE_PAYMENT entry
\* of F and a RIDE_EARN entry of the payout (fare 100 at rate 0.20: fee 20, payout 80).
C9_RideFare ==
    [][\A s \in Slots : CommitsOk(s, {"payDriver"}) =>
          LET rider == req[s].caller
              ride == rides[req[s].target]
              driver == ride.driverId
              F == ride.fare
              c == IF req[s].fee < 0 THEN 0 ELSE IF req[s].fee > 95 THEN 95 ELSE req[s].fee
              payout == ReadBalance(wallets', driver) - ReadBalance(wallets, driver)
          IN /\ ReadBalance(wallets', rider) = ReadBalance(wallets, rider) - F
             /\ IsRoundedFee(F - payout, F, c)
             /\ (F = 100 * Scale /\ req[s].fee = 20 => payout = 80 * Scale)
             /\ ledger'[rider] = Append(ledger[rider], Entry("RIDE_PAYMENT", F, req[s].target))
             /\ ledger'[driver] = Append(ledger[driver], Entry("RIDE_EARN", payout, req[s].target))]_vars

\* C10: a settlement request answers not-found for a ride that does not exist and
\* permission-denied whenever the caller is not the ride's owner; it answers ok only
\* to the ride's owner.
C10_RideValidation ==
    \A s \in Slots :
        (req[s].op = "payDriver" /\ req[s].pc = "done" /\ req[s].target # NoVal) =>
           LET ride == rides[req[s].target]
           IN /\ ~ride.exists => req[s].result = "not-found"
              /\ (ride.exists /\ ride.userId # req[s].caller)
                    => req[s].result = "permission-denied"
              /\ req[s].result = "ok" => ride.userId = req[s].caller

\* The order document payAndPlaceOrder writes for request r
PaidOrder(r) == [businessId |-> r.target, ownerId |-> BusinessDocs[r.target].ownerId,
                 userId |-> r.caller, total |-> r.amt, status |-> "paid"]

\* C11: a payAndPlaceOrder that succeeds takes exactly total from the buyer's wallet,
\* adds exactly total to the wallet of the business's ownerId and appends the order
\* document with status paid, in one step that changes no other wallet; an order
\* document appears only in such a step; the request fails with not-found when the
\* business is absent and with failed-precondition when the owner is unset or the
\* buyer's balance is below total.
C11_OrderEffect ==
    [][/\ \A s \in Slots : CommitsOk(s, {"payOrder"}) =>
            LET buyer == req[s].caller
                owner == BusinessDocs[req[s].target].ownerId
                total == req[s].amt
                debited == [wallets EXCEPT ![buyer] =
                              [exists |-> TRUE, balance |-> ReadBalance(wallets, buyer) - total]]
            IN /\ owner # NoVal /\ ReadBalance(wallets, buyer) >= total
               /\ wallets' = [debited EXCEPT ![owner] =
                                 [exists |-> TRUE, balance |-> ReadBalance(debited, owner) + total]]
               /\ orders' = Append(orders, PaidOrder(req[s]))
       /\ orders' # orders => \E s \in Slots : CommitsOk(s, {"payOrder"})
       /\ \A s \in Slots :
            (req[s].op = "payOrder" /\ req[s].pc # "done" /\ req'[s] # req[s]) =>
               LET biz == BusinessDocs[req[s].target] IN
               /\ (req[s].pc = "tx_biz" /\ ~biz.exists) => req'[s].result = "not-found"
               /\ (req[s].pc = "tx_biz" /\ biz.exists /\ biz.ownerId = NoVal)
                     => req'[s].result = "failed-precondition"
               /\ (req[s].pc = "tx_wallets" /\ ReadBalance(wallets, req[s].caller) < req[s].amt)
                     => req'[s].result = "failed-precondition"
               /\ Fails(s) => UNCHANGED settled]_vars

\* The orders collection holds exactly one paid document per payAndPlaceOrder
\* request that answered success.
PaidOrdersAreCommitted ==
    /\ \A i \in DOMAIN orders : orders[i].status = "paid"
    /\ Len(orders) = Cardinality({s \in Slots : req[s].op = "payOrder" /\ req[s].result = "ok"})

\* u1 (100) bought for 30 from b1 after u2, b1's owner, had received a transfer of 40.
C11_Witness ==
    /\ \E s \in Slots : req[s].op = "payOrder" /\ req[s].result = "ok" /\ req[s].amt = 30 * Scale
    /\ orders = <<[businessId |-> "b1", ownerId |-> "u2", userId |-> "u1",
                   total |-> 30 * Scale, status |-> "paid"]>>
    /\ wallets["u1"] = [exists |-> TRUE, balance |-> 30 * Scale]
    /\ wallets["u2"] = [exists |-> TRUE, balance |-> 70 * Scale]

\* C12: two payAndPlaceOrder requests for the same purchase (same caller, business
\* and total) debit the buyer and credit the owner once: when both have answered and
\* one succeeded, one paid order exists and the buyer holds the opening balance minus
\* total.
C12_OrderIdempotent ==
    \A s, q \in Slots :
        (/\ s # q /\ req[s].op = "payOrder" /\ req[q].op = "payOrder"
         /\ req[s].pc = "done" /\ req[q].pc = "done" /\ req[s].result = "ok"
         /\ req[s].caller = req[q].caller /\ req[s].target = req[q].target
         /\ req[s].amt = req[q].amt /\ req[s].payee # req[s].caller)
        => /\ Len(orders) = 1
           /\ ReadBalance(wallets, req[s].caller) = opening[req[s].caller] - req[s].amt
           /\ ReadBalance(wallets, req[s].payee) = opening[req[s].payee] + req[s].amt

\* The amounts convert(G, C, base) can return for the capture of order o
Converted(o) ==
    LET c == GwOrders[o]
        C == toUpperCase(c.currency)
    IN IF C = getBaseCurrency THEN {c.value}
       ELSE {fxConvert(c.value, C, getBaseCurrency, k, x).v : k \in BOOLEAN,
               x \in {y \in FxOutcomes : ~fxConvert(c.value, C, getBaseCurrency, TRUE, y).thrown
                                         /\ ~fxConvert(c.value, C, getBaseCurrency, FALSE, y).thrown}}

\* What a capturePayPalOrder that commits does to the store, apart from its answer
CaptureStoreEffect(s) ==
    LET o == req[s].target
        w == req[s].payee
        credit == req[s].amt
    IN /\ GwOrders[o].hasAmount /\ credit \in Converted(o)
       /\ (toUpperCase(GwOrders[o].currency) = getBaseCurrency => credit = GwOrders[o].value)
       /\ wallets' = [wallets EXCEPT ![w] =
                        [exists |-> TRUE, balance |-> ReadBalance(wallets, w) + credit]]
       /\ ledger' = [ledger EXCEPT ![w] =
                       Append(@, [type |-> "TOP_UP", amount |-> credit, ref |-> o,
                                  captureId |-> GwOrders[o].captureId, status |-> "SUCCESS"])]

\* C13 as stated: a capturePayPalOrder that commits after the gateway answered COMPLETED
\* with gross G in currency C adds exactly convert(G, C, base) to the credited wallet
\* (G itself when C is the base currency), appends one TOP_UP entry with the orderId,
\* the captureId and status SUCCESS in the same step, and answers status SUCCESS with
\* that amount and the base currency.
C13_CaptureEffect ==
    [][\A s \in Slots : CommitsOk(s, {"capture"}) =>
          /\ CaptureStoreEffect(s)
          /\ req'[s].ret = [status |-> "SUCCESS", credited |-> req[s].amt,
                            currency |-> APP_DEFAULT_CCY]]_vars

\* C13 amended: as stated, except that the amount in the answer is the credited amount
\* rounded to the nearest hundredth.
C13_CaptureEffectRounded ==
    [][\A s \in Slots : CommitsOk(s, {"capture"}) =>
          /\ CaptureStoreEffect(s)
          /\ req'[s].ret.status = "SUCCESS" /\ req'[s].ret.currency = APP_DEFAULT_CCY
          /\ req'[s].ret.credited % (Scale \div 100) = 0
          /\ 2 * req'[s].ret.credited <= 2 * req[s].amt + Scale \div 100
          /\ 2 * req'[s].ret.credited >= 2 * req[s].amt - Scale \div 100]_vars

\* u1, holding 100, captured order o2 (5 USD) at the first provider's rate: 90.617 was
\* credited and 90.62 answered.
C13_Witness ==
    /\ \E s \in Slots : /\ req[s].op = "capture" /\ req[s].result = "ok"
                        /\ req[s].caller = "u1" /\ req[s].target = "o2"
                        /\ req[s].amt = 90617 /\ req[s].ret.credited = 90620
    /\ wallets["u1"].balance = 190617
    /\ ledger["u1"] = <<TopUpEntry(100 * Scale, "o1", "cap1"), TopUpEntry(90617, "o2", "cap2")>>

\* The ledger of u gained a TOP_UP entry in this step
NewTopUp(u) ==
    /\ Len(ledger'[u]) > Len(ledger[u])
    /\ \E i \in DOMAIN ledger'[u] : i > Len(ledger[u]) /\ ledger'[u][i].type = "TOP_UP"

GuestConverted(o) ==
    IF GwOrders[o].hasAmount THEN Converted(o)
    ELSE {fxConvert(0, "USD", getBaseCurrency, k, x).v : k \in BOOLEAN,
            x \in {y \in FxOutcomes : y[3] # "throw"}}

\* C15: a guest capture that commits credits the wallet of the custom_id the gateway
\* returns for the order, and no other wallet, whatever else the request carries; two
\* guest captures of one order that differ in a caller-supplied field credit the same
\* wallet, with the same amount when the capture is in the base currency and with an
\* amount the conversion can return otherwise.
C15_GuestCreditFromGateway ==
    [][\A s \in Slots : CommitsOk(s, {"guestCapture"}) =>
          LET o == req[s].target
              w == GwOrders[o].customId
          IN /\ req[s].amt \in GuestConverted(o)
             /\ wallets' = [wallets EXCEPT ![w] =
                              [exists |-> TRUE, balance |-> ReadBalance(wallets, w) + req[s].amt]]
             /\ \A u \in Users \ {w} : ledger'[u] = ledger[u]
             /\ \A q \in Slots \ {s} :
                   (req[q].op = "guestCapture" /\ req[q].result = "ok" /\ req[q].target = o)
                   => /\ req[q].payee = req[s].payee
                      /\ (GwOrders[o].currency = getBaseCurrency => req[q].amt = req[s].amt)]_vars

\* Two guest captures of order o1 (custom_id u1), one of them claiming to be u2, both
\* credited u1.
C15_Witness ==
    /\ req[1].op = "guestCapture" /\ req[2].op = "guestCapture"
    /\ req[1].target = "o1" /\ req[2].target = "o1"
    /\ req[1].claimed = "u2" /\ req[2].claimed = NoVal
    /\ req[1].result = "ok" /\ req[2].result = "ok"
    /\ req[1].payee = "u1" /\ req[2].payee = "u1"
    /\ ~wallets["u2"].exists

\* C16: every capture that commits, through either endpoint and whoever requests it,
\* credits the wallet of the order's custom_id and writes the TOP_UP entry there.
C16_CreditGoesToCorrelationId ==
    [][\A s \in Slots : CommitsOk(s, {"capture", "guestCapture"}) =>
          LET w == GwOrders[req[s].target].customId
          IN /\ ReadBalance(wallets', w) = ReadBalance(wallets, w) + req[s].amt
             /\ NewTopUp(w)
             /\ \A u \in Users \ {w} : wallets'[u] = wallets[u] /\ ledger'[u] = ledger[u]]_vars

\* The TOP_UP entries, over all ledgers, that carry a capture id
TopUpsOf(captureId) ==
    UNION {{<<u, i>> : i \in {j \in DOMAIN ledger[u] :
                                /\ ledger[u][j].type = "TOP_UP"
                                /\ ledger[u][j].captureId = captureId}} : u \in Users}

\* C17: in every reachable state at most one TOP_UP entry exists for a gateway capture
\* id, whatever capture requests were made for its order and through whichever endpoint.
C17_CaptureCreditedOnce ==
    \A o \in OrderIds :
        GwOrders[o].captureId # NoVal => Cardinality(TopUpsOf(GwOrders[o].captureId)) <= 1

\* C18: a capture request that the gateway answered COMPLETED does not end without
\* its credit: when it has answered, it answered success and a TOP_UP entry for its
\* order is in the credited wallet's ledger.
C18_CompletedCaptureNotAbandoned ==
    \A s \in Slots :
        (/\ req[s].op \in {"capture", "guestCapture"} /\ req[s].gw = "completed"
         /\ req[s].pc = "done")
        => /\ req[s].result = "ok"
           /\ \E i \in DOMAIN ledger[req[s].payee] :
                 /\ ledger[req[s].payee][i].type = "TOP_UP"
                 /\ ledger[req[s].payee][i].ref = req[s].target

\* The answer provider p gave in the conversion followed, "" if it was not asked
SeenFrom(p) ==
    IF \E i \in DOMAIN fx.calls : fx.calls[i] = p
    THEN fx.seen[CHOOSE i \in DOMAIN fx.calls : fx.calls[i] = p]
    ELSE NoVal

\* The conversion followed call by call ends as fxConvert says, for every way of
\* completing the answers of the providers that were not asked.
FxAgrees ==
    fx.pc = "done" =>
       \A o \in FxOutcomes :
          (\A p \in 1..3 : SeenFrom(p) # NoVal => o[p] = SeenFrom(p))
          => fxConvert(fx.amount, fx.from, fx.to, fx.hasKey, o)
                = [thrown |-> fx.thrown, v |-> fx.result]

\* Two currency codes that differ at most in case
SameCurrency(a, b) ==
    \E class \in {{"ZAR", "zar"}, {"USD", "Usd"}} : a \in class /\ b \in class

\* C19: fxConvert(amount, X, X), with the two codes compared without regard to case,
\* returns amount unchanged, raises nothing and asks no rate provider.
C19_CurrencyIdentity ==
    (fx.pc = "done" /\ SameCurrency(fx.from, fx.to))
    => fx.result = fx.amount /\ ~fx.thrown /\ fx.calls = <<>>

\* 12.345 was converted from "zar" to "ZAR".
C19_Witness ==
    /\ fx.pc = "done" /\ fx.from = "zar" /\ fx.to = "ZAR" /\ fx.amount = 12345
    /\ fx.result = 12345 /\ fx.calls = <<>>

\* C20: when the conversion has ended after asking providers, it returned the
\* secondary's number if the primary failed (or was not configured) and the secondary
\* answered a number with success; the tertiary's number if both earlier providers
\* failed and the tertiary answered a number with success; and the original amount,
\* raising nothing, if every provider asked failed (non-success or non-numeric answer,
\* or a network error).
C20_FallbackChain ==
    (fx.pc = "done" /\ fx.calls # <<>>) =>
       LET from == toUpperCase(fx.from)
           to == toUpperCase(fx.to)
       IN /\ (SeenFrom(1) # "num" /\ SeenFrom(2) = "num")
                => ~fx.thrown /\ fx.result = Quote(2, fx.amount, from, to)
          /\ (SeenFrom(1) # "num" /\ SeenFrom(2) # "num" /\ SeenFrom(3) = "num")
                => ~fx.thrown /\ fx.result = Quote(3, fx.amount, from, to)
          /\ (SeenFrom(1) # "num" /\ SeenFrom(2) # "num" /\ SeenFrom(3) # "num")
                => ~fx.thrown /\ fx.result = fx.amount

\* r is n rounded to the nearest hundredth
IsRounded2(r, n) ==
    /\ r % (Scale \div 100) = 0
    /\ 2 * r <= 2 * n + Scale \div 100 /\ 2 * r >= 2 * n - Scale \div 100

\* The order of request s has been, or is about to be, submitted to the gateway
OrderReady(s) ==
    /\ req[s].op \in {"createOrder", "guestCreate"}
    /\ req[s].pc = "create_gw" \/ req[s].gw \in {"http_error", "created"}

\* The amounts fxConvert can return for converting the requested amount to USD
ConvertedToFallback(s) ==
    {fxConvert(req[s].amt, req[s].target, "USD", k, o).v : k \in BOOLEAN,
       o \in {y \in FxOutcomes : y[3] # "throw"}}

\* C21 as stated: an order submitted to the gateway, by either endpoint, is in a
\* supported currency: the requested currency with the requested amount when that
\* currency is supported; otherwise USD with fxConvert's result rounded to two decimals,
\* the conversion having ended before the gateway is called.
C21_OrderCurrency ==
    \A s \in Slots : OrderReady(s) =>
        LET requested == req[s].target
            order == req[s].order
        IN /\ order.currency \in PAYPAL_SUPPORTED
           /\ requested \in PAYPAL_SUPPORTED
                 => order.currency = requested /\ order.amount = req[s].amt
           /\ requested \notin PAYPAL_SUPPORTED
                 => /\ order.currency = "USD"
                    /\ \E c \in ConvertedToFallback(s) : IsRounded2(order.amount, c)

\* C21 amended: as stated, except that the guest endpoint submits the requested amount
\* rounded to two decimals when the currency is supported.
C21_OrderCurrencyGuestRounded ==
    \A s \in Slots : OrderReady(s) =>
        LET requested == req[s].target
            order == req[s].order
        IN /\ order.currency \in PAYPAL_SUPPORTED
           /\ requested \in PAYPAL_SUPPORTED
                 => /\ order.currency = requested
                    /\ req[s].op = "createOrder" => order.amount = req[s].amt
                    /\ req[s].op = "guestCreate" => IsRounded2(order.amount, req[s].amt)
           /\ requested \notin PAYPAL_SUPPORTED
                 => /\ order.currency = "USD"
                    /\ \E c \in ConvertedToFallback(s) : IsRounded2(order.amount, c)

\* A guest top-up of 50 ZAR for u2 was created as a USD order of 2.76 (the first
\* provider's rate), and a guest top-up of 12.345 EUR as an EUR order of 12.35.
C21_Witness ==
    /\ req[1].op = "guestCreate" /\ req[1].result = "ok" /\ req[1].target = "ZAR"
    /\ req[1].amt = 50 * Scale
    /\ req[1].order = [currency |-> "USD", amount |-> 2760, customId |-> "u2"]
    /\ req[2].op = "guestCreate" /\ req[2].result = "ok" /\ req[2].amt = 12345
    /\ req[2].order = [currency |-> "EUR", amount |-> 12350, customId |-> "u2"]

RECURSIVE SumTo(_, _)
\* The sum of the first i numbers of a sequence
SumTo(seq, i) == IF i = 0 THEN 0 ELSE seq[i] + SumTo(seq, i - 1)

\* The limit the paging client asked for, as the claim reads it
AskedLimit == IF pg.limit.k = "none" THEN 20
              ELSE IF pg.limit.v < 1 THEN 1
              ELSE IF pg.limit.v > 50 THEN 50 ELSE pg.limit.v

\* The pages so far hold the newest entries, newest first, each once, at most limit per
\* page, and paging that has ended has returned every entry within the number of calls
\* that the ledger's length allows.
PagedInOrder ==
    LET n == Len(ledger["u1"])
    IN /\ Len(pg.got) <= n
       /\ \A i \in 1..Len(pg.got) : pg.got[i] = n - i + 1
       /\ \A i \in 1..Len(pg.sizes) : pg.sizes[i] <= AskedLimit
       /\ Len(pg.got) = SumTo(pg.sizes, Len(pg.sizes))
       /\ Len(pg.sizes) <= n \div AskedLimit + 1
       /\ pg.pc = "end" => Len(pg.got) = n

\* C22 as stated: paging from no cursor with the returned cursors returns every entry of
\* the wallet once, newest first, at most limit per page; a page has a non-null cursor
\* when entries remain after it and a null cursor when it returns the last remaining
\* entries.
C22_PagingComplete ==
    pg.pc \in {"more", "end"} =>
        /\ PagedInOrder
        /\ \A i \in 1..Len(pg.sizes) :
              LET remain == Len(ledger["u1"]) - SumTo(pg.sizes, i)
              IN /\ remain > 0 => pg.cursors[i] # 0
                 /\ remain = 0 => pg.cursors[i] = 0

\* C22 amended: as stated, except that a page has a null cursor exactly when it holds
\* fewer items than the limit; a full page that returns the last remaining entries has a
\* non-null cursor, and the page after it is empty with a null cursor.
C22_PagingCompleteFullPage ==
    pg.pc \in {"more", "end"} =>
        /\ PagedInOrder
        /\ \A i \in 1..Len(pg.sizes) :
              LET remain == Len(ledger["u1"]) - SumTo(pg.sizes, i)
              IN /\ remain > 0 => pg.cursors[i] # 0
                 /\ pg.cursors[i] = 0 <=> pg.sizes[i] < AskedLimit
                 /\ (remain = 0 /\ pg.cursors[i] # 0 /\ i < Len(pg.sizes))
                       => pg.sizes[i + 1] = 0 /\ pg.cursors[i + 1] = 0

\* 40 entries paged with limit 20: two full pages with cursors, then an empty page.
C22_Witness ==
    /\ Len(ledger["u1"]) = 40 /\ pg.limit = Num(20) /\ pg.pc = "end"
    /\ pg.sizes = <<20, 20, 0>> /\ pg.cursors = <<21, 1, 0>>

C24_GetBalanceAltersNoMoney ==
    [][\A s \in Slots :
          (req[s].op = "getBalance" /\ req'[s] # req[s]) =>
              \A u \in Users :
                 /\ wallets[u].exists => wallets'[u] = wallets[u]
                 /\ (~wallets[u].exists /\ wallets'[u].exists)
                       => u = req[s].caller /\ wallets'[u].balance = 0]_vars

\* C25: the webhook answers 200 only when the signature check returned SUCCESS, 400 when
\* it returned another verification status, 500 when the identity is not configured, the
\* token request fails or the verification call throws; its steps change no document.
C25_WebhookAnswers ==
    [][\A s \in Slots :
          (req'[s].op = "webhook" /\ req'[s] # req[s]) =>
             /\ UNCHANGED data
             /\ req'[s].pc = "done" =>
                   req'[s].result =
                      IF req[s].pc # "verify" \/ req'[s].gw \in {"token_error", "throws"}
                      THEN "http-500"
                      ELSE IF req'[s].gw = "SUCCESS" THEN "http-200" ELSE "http-400"]_vars

\* A verified event was answered 200 and one that failed verification 400.
C25_Witness ==
    /\ req[1].op = "webhook" /\ req[1].gw = "SUCCESS" /\ req[1].result = "http-200"
    /\ req[2].op = "webhook" /\ req[2].gw = "FAILURE" /\ req[2].result = "http-400"

\* The step is a call of one of the seven authenticated operations without an identity
UnauthenticatedCall(s) ==
    \/ \E a \in ApiAmounts, y \in ApiCurrencies : CallCreateOrder(s, NoVal, a, y)
    \/ \E o \in OrderIds \cup {NoVal} : CallCapture(s, NoVal, o)
    \/ CallGetBalance(s, NoVal)
    \/ \E limit \in ApiLimits : CallGetTransactions(s, NoVal, limit)
    \/ \E t \in Callers, a \in TransferAmounts : CallTransfer(s, NoVal, t, a)
    \/ \E r \in Rides \cup {NoVal} : CallPayDriver(s, NoVal, r)
    \/ \E b \in Businesses \cup {NoVal}, i \in BOOLEAN, t \in OrderTotals :
          CallPayOrder(s, NoVal, b, i, t)

\* C26: a call of an authenticated operation without a caller identity ends at once with
\* unauthenticated, whatever its other inputs: no gateway answer, no transaction attempt,
\* no document changed.
C26_Unauthenticated ==
    [][\A s \in Slots : UnauthenticatedCall(s) =>
          /\ req'[s].pc = "done" /\ req'[s].result = "unauthenticated"
          /\ req'[s].gw = NoVal /\ req'[s].attempts = 0 /\ req'[s].order = NoOrder
          /\ UNCHANGED data]_vars

\* createPayPalOrder and getTransactions have each been refused for want of an identity.
C26_Witness ==
    /\ req[1].op = "createOrder" /\ req[1].result = "unauthenticated"
    /\ req[2].op = "getTransactions" /\ req[2].result = "unauthenticated"

\* The operations that change balances in a transaction
TransactionOps == {"capture", "guestCapture", "transfer", "payDriver", "payOrder"}

\* C27: a commit of a top-up capture, transfer, ride settlement or order settlement that
\* changes a wallet's balance appends exactly one entry to that wallet's ledger in the
\* same step.
C27_EntryPerBalanceChange ==
    [][\A s \in Slots :
          (req[s].op \in TransactionOps /\ req'[s] # req[s]) =>
              \A u \in Users :
                 ReadBalance(wallets', u) # ReadBalance(wallets, u)
                    => Len(ledger'[u]) = Len(ledger[u]) + 1]_vars

\* C28: a step of transferFunds, payDriverOnComplete or payAndPlaceOrder that lowers the
\* payer's balance is the commit of an attempt that read the payer's wallet (absent reads
\* as 0), found the balance at least the amount, still sees the balance it read, and
\* writes the read balance minus the amount.
C28_GuardedDebit ==
    [][\A s \in Slots :
          (req[s].op \in {"transfer", "payDriver", "payOrder"} /\ req'[s] # req[s]) =>
              \A u \in Users :
                 (u = req[s].caller /\ ReadBalance(wallets', u) < ReadBalance(wallets, u)) =>
                    /\ req[s].pc = "tx_commit" /\ req[s].attempts >= 1
                    /\ req[s].pbal = ReadBalance(wallets, u)
                    /\ req[s].pbal >= req[s].amt
                    /\ ReadBalance(wallets', u) = req[s].pbal - req[s].amt]_vars

\* u1 paid 40 out of 100 by transfer, and a payment above the payer's balance was refused.
C28_Witness ==
    /\ req[1].op = "transfer" /\ req[1].result = "ok" /\ req[1].caller = "u1"
    /\ wallets["u1"].balance = 60 * Scale
    /\ ledger["u1"][Len(ledger["u1"])].type = "TRANSFER_OUT"
    /\ req[2].result = "failed-precondition" /\ req[2].attempts = 1

\* C29: every TOP_UP, TRANSFER_IN and RIDE_EARN entry written by a request has an amount
\* above 0 (the opening entries of the funded wallets are above 0 as well).
C29_NoNonPositiveCredit ==
    \A u \in Users : \A i \in 1..Len(ledger[u]) :
        ledger[u][i].type \in {"TOP_UP", "TRANSFER_IN", "RIDE_EARN"} => ledger[u][i].amount > 0

\* C30: every ledger entry has status SUCCESS, and in every step each wallet's ledger
\* keeps the entries it had, unchanged and in place, new entries coming after them, and
\* each wallet that exists goes on existing.
C30_AppendOnly ==
    /\ [](\A u \in Users : \A i \in 1..Len(ledger[u]) : ledger[u][i].status = "SUCCESS")
    /\ [][\A u \in Users :
             /\ Len(ledger'[u]) >= Len(ledger[u])
             /\ \A i \in 1..Len(ledger[u]) : ledger'[u][i] = ledger[u][i]
             /\ wallets[u].exists => wallets'[u].exists]_vars

\* u1's ledger grew from its opening top-up by a transfer out and a ride payment, and
\* the wallets of u2 and u3 were created by the credits.
C30_Witness ==
    /\ Len(ledger["u1"]) = 3
    /\ ledger["u1"][1].type = "TOP_UP" /\ ledger["u1"][2].type = "TRANSFER_OUT"
    /\ ledger["u1"][3].type = "RIDE_PAYMENT"
    /\ wallets["u2"].exists /\ wallets["u3"].exists

\* The providers in the order the conversion may ask them
FxOrder == IF fx.hasKey THEN <<1, 2, 3>> ELSE <<2, 3>>

\* C31: at every moment of a conversion the providers asked so far are the first ones of
\* primary (only with a key), secondary, tertiary, in that order, each asked once; every
\* provider asked before another one had not answered a number with success; and a
\* provider that answered a number with success is the last one asked.
C31_ProviderOrder ==
    /\ Len(fx.calls) <= Len(FxOrder) /\ Len(fx.seen) = Len(fx.calls)
    /\ \A i \in 1..Len(fx.calls) : fx.calls[i] = FxOrder[i]
    /\ \A i \in 1..Len(fx.calls) :
          fx.seen[i] = "num" => i = Len(fx.calls) /\ fx.pc = "done" /\ ~fx.thrown
    /\ (fx.pc = "done" /\ ~SameCurrency(fx.from, fx.to) /\ fx.seen # <<>>
          /\ fx.seen[Len(fx.seen)] # "num") => Len(fx.calls) = Len(FxOrder)

\* With a key, the primary answered without a usable number, the secondary answered a
\* number, and the tertiary was not asked.
C31_Witness ==
    /\ fx.pc = "done" /\ fx.hasKey /\ fx.calls = <<1, 2>> /\ fx.seen = <<"errnum", "num">>
    /\ fx.result = Quote(2, fx.amount, toUpperCase(fx.from), toUpperCase(fx.to))

\* Positions from which a request's next step calls the gateway or a rate provider, and
\* positions inside a store transaction
ExternalPcs == {"gateway", "convert", "create_gw", "verify"}
TransactionPcs == {"tx_wallets", "tx_commit", "tx_ride", "tx_biz"}

\* C32: a request calls the gateway or a rate provider only before its first transaction
\* attempt; a step inside a transaction receives no gateway answer, prepares no order,
\* leaves a capture's credit as converted, and leads to the transaction again or to the
\* end of the request, so a retry repeats no external call.
C32_NoNetworkInTransaction ==
    [][\A s \in Slots : req'[s] # req[s] =>
          /\ req[s].pc \in ExternalPcs => req[s].attempts = 0
          /\ req'[s].gw # req[s].gw => req[s].pc \in ExternalPcs
          /\ req[s].pc \in TransactionPcs =>
                /\ req'[s].pc \in TransactionPcs \cup {"done"}
                /\ req'[s].gw = req[s].gw /\ req'[s].order = req[s].order
                /\ req[s].op \in {"capture", "guestCapture"} => req'[s].amt = req[s].amt]_vars

\* A capture of 5 USD was committed at its second transaction attempt after one gateway
\* answer.
C32_Witness ==
    \E s \in Slots :
       /\ req[s].op = "capture" /\ req[s].target = "o2" /\ req[s].result = "ok"
       /\ req[s].attempts = 2 /\ req[s].gw = "completed"

\* Request s committed a transaction that credits a wallet
CommittedCredit(s) ==
    /\ req[s].op \in TransactionOps /\ req[s].pc = "done" /\ req[s].result = "ok"
    /\ req[s].payee # NoVal

\* Request s debits wallet u: its caller pays in a transfer, a ride or an order
DebitedBy(s, u) == req[s].op \in {"transfer", "payDriver", "payOrder"} /\ req[s].caller = u

\* The amount request s credits to its payee
CreditOf(s) ==
    IF req[s].op = "payDriver" THEN req[s].amt - PlatformFee(req[s].amt, req[s].fee)
    ELSE req[s].amt

C34_SettlementsTerminate ==
    \A s \in Slots :
        (req[s].pc \notin {"idle", "done"}) ~> (req[s].pc = "done" /\ req[s].result # NoVal)

\* A transfer of 40 from u1 to u2 and one of 40 from u2 to u1 both committed, the second
\* at its second attempt.
C34_Witness ==
    /\ req[1].op = "transfer" /\ req[1].caller = "u1" /\ req[1].payee = "u2"
    /\ req[2].op = "transfer" /\ req[2].caller = "u2" /\ req[2].payee = "u1"
    /\ req[1].result = "ok" /\ req[2].result = "ok" /\ req[2].attempts = 2
    /\ wallets["u1"].balance = 100 * Scale /\ wallets["u2"].balance = 50 * Scale

\* Request s ended with a credit
Credited(s) == req[s].pc = "done" /\ req[s].result = "ok"

\* The ledger of request s's payee holds the TOP_UP entry of its capture
WroteTopUp(s) ==
    \E i \in 1..Len(ledger[req[s].payee]) :
        ledger[req[s].payee][i]
           = TopUpEntry(req[s].amt, req[s].target, GwOrders[req[s].target].captureId)

\* C35: when capturePayPalOrder and the guest capture endpoint have both ended for the
\* same order after the same gateway answer, both wrote the TOP_UP entry of the capture
\* if both credited; and if the capture needs no conversion (base currency, or no amount
\* or currency at all) either both failed or both credited the same amount.
C35_CapturesAgree ==
    \A a \in Slots, g \in Slots :
        (/\ req[a].op = "capture" /\ req[g].op = "guestCapture"
         /\ req[a].pc = "done" /\ req[g].pc = "done"
         /\ req[a].target = req[g].target /\ req[a].gw = req[g].gw /\ req[a].gw # NoVal)
        => LET o == GwOrders[req[a].target]
               direct == ~o.hasAmount \/ toUpperCase(o.currency) = getBaseCurrency
           IN /\ direct => (Credited(a) <=> Credited(g))
              /\ (direct /\ Credited(a) /\ Credited(g)) => req[a].amt = req[g].amt
              /\ (Credited(a) /\ Credited(g)) => WroteTopUp(a) /\ WroteTopUp(g)

\* C36: no wallet's balance is below 0 in any reachable state.
C36_NoNegativeBalance ==
    \A u \in Users : ReadBalance(wallets, u) >= 0

\* C37: a settlement that commits with payer and payee being one wallet does not raise
\* that wallet: a ride whose driver is its rider lowers it by exactly the platform fee,
\* and an order whose buyer owns the business leaves it as it was.
C37_SameWalletSettlement ==
    [][\A s \in Slots :
          (CommitsOk(s, {"payDriver", "payOrder"}) /\ req[s].payee = req[s].caller) =>
              LET u == req[s].caller
                  before == ReadBalance(wallets, u)
                  after == ReadBalance(wallets', u)
              IN /\ after <= before
                 /\ req[s].op = "payDriver"
                       => after = before - PlatformFee(req[s].amt, req[s].fee)
                 /\ req[s].op = "payOrder" => after = before]_vars

\* Wallet u's ledger holds an entry of this type for the ride
HasRideEntry(u, type, rideId) ==
    u \in Users /\ \E i \in 1..Len(ledger[u]) :
        ledger[u][i].type = type /\ ledger[u][i].ref = rideId

\* C38: whenever payDriverOnComplete has answered ok for a ride, the ledger of the ride's
\* rider holds a RIDE_PAYMENT entry for it and the ledger of its driver a RIDE_EARN entry,
\* whoever set the ride's status or payment status.
C38_SuccessMeansPaid ==
    \A s \in Slots :
        (req[s].op = "payDriver" /\ req[s].pc = "done" /\ req[s].result = "ok") =>
            LET ride == rides[req[s].target]
            IN /\ HasRideEntry(ride.userId, "RIDE_PAYMENT", req[s].target)
               /\ HasRideEntry(ride.driverId, "RIDE_EARN", req[s].target)
====
